---------------------------- MODULE Spec2Model ----------------------------
(***************************************************************************)
(* A model of the knowledge-graph ingestion pipeline of dice-embeddings:   *)
(*   src/core/knowledge_graph.py  class KG (construction from raw data,    *)
(*                                pruning, vocabulary construction,        *)
(*                                indexing, serialization, deserialize)    *)
(*   src/executer.py              Execute.evaluate_lp (filtered ranking)   *)
(*                                Execute.evaluate_lp_k_vs_all             *)
(*                                                                         *)
(* KG.__init__ is modelled as a sequence of stages; pc is the position of  *)
(* the constructor.  An exception raised by a stage ends the construction  *)
(* (pc = "aborted", error names the exception).                            *)
(***************************************************************************)
EXTENDS Integers, Sequences, FiniteSets, TLC

VARIABLES
    args,             \* the constructor's parameters and the raw files of data_dir
    pc,               \* position of KG.__init__
    error,            \* the exception that ended the construction, and the stage it left
    mode,             \* "fresh": deserialize_flag is None; "deserialize": it is the storage path
    train_set,        \* self.train_set
    valid_set,        \* self.valid_set
    test_set,         \* self.test_set
    entity_to_idx,    \* self.entity_to_idx
    relation_to_idx,  \* self.relation_to_idx
    num_entities,     \* self.num_entities
    num_relations,    \* self.num_relations
    er_vocab,         \* self.er_vocab
    re_vocab,         \* self.re_vocab
    ee_vocab,         \* self.ee_vocab
    constraints_per_rel, \* self.domain_constraints_per_rel, self.range_constraints_per_rel
    disk,             \* the files under the storage path
    built,            \* the KG that the fresh construction completed with (kept by the caller)
    lp                \* the state of one call of Execute.evaluate_lp or evaluate_lp_k_vs_all

kgvars == <<mode, train_set, valid_set, test_set, entity_to_idx, relation_to_idx,
            num_entities, num_relations, er_vocab, re_vocab, ee_vocab,
            constraints_per_rel>>
vars == <<args, pc, error, kgvars, disk, built, lp>>

-----------------------------------------------------------------------------
(* Python's None and a value that is not None *)
None == [some |-> FALSE]
Some(v) == [some |-> TRUE, val |-> v]

Range(s) == {s[i] : i \in DOMAIN s}
SeqsUpTo(S, n) == UNION {[1..k -> S] : k \in 0..n}
Column(rows, k) == [i \in 1..Len(rows) |-> rows[i][k]]
Count(s, x) == Cardinality({i \in DOMAIN s : s[i] = x})
Max2(x, y) == IF x >= y THEN x ELSE y
Last(s) == s[Len(s)]

-----------------------------------------------------------------------------
(* Bounds of the model and the input spaces *)
MaxTrain == 2        \* rows of the train split of a large corpus
MaxSmallTrain == 1   \* rows of the train split of a small corpus
NoiseRate == 100     \* add_noise_rate, in percent

Entities == {"a", "b", "c"}
Relations == {"r", "q"}
Triples == Entities \X Relations \X Entities

-----------------------------------------------------------------------------
(* pandas / numpy helpers as the pipeline uses them *)

\* pd.unique: the distinct values in order of first appearance
RECURSIVE Unique(_)
Unique(s) ==
    IF s = <<>> THEN <<>>
    ELSE LET r == Unique(SubSeq(s, 1, Len(s) - 1))
             x == s[Len(s)]
         IN  IF x \in Range(r) THEN r ELSE Append(r, x)

\* df[['subject', 'object']].values.ravel('K'): .values of a two-column frame is
\* the transpose of the (columns x rows) block, so memory order ('K') is column
\* by column: every subject cell in row order, then every object cell.
RavelRowByRow(rows) ==
    IF rows = <<>> THEN <<>>
    ELSE [i \in 1..(2 * Len(rows)) |->
            IF i % 2 = 1 THEN rows[(i + 1) \div 2][1] ELSE rows[i \div 2][3]]
RavelSubjectObject(rows) == Column(rows, 1) \o Column(rows, 3)

\* df['relation'].values.ravel('K'): one column, row order
RavelRelation(rows) == Column(rows, 2)

\* pd.DataFrame(data=np.arange(len(ordered_list)), columns=[..], index=ordered_list):
\* a frame is the sequence of its rows <<index, value>>
VocabFrame(ordered_list) == [i \in 1..Len(ordered_list) |-> <<ordered_list[i], i - 1>>]

\* frame.to_dict()[column]: index -> value, a repeated index keeps its last row
ToDict(frame) ==
    [k \in {frame[i][1] : i \in DOMAIN frame} |->
        LET last == CHOOSE i \in DOMAIN frame :
                        /\ frame[i][1] = k
                        /\ \A j \in DOMAIN frame : frame[j][1] = k => j <= i
        IN  frame[last][2]]

-----------------------------------------------------------------------------
(* KG.remove_triples_from_train_with_condition, lines 281-297: the rows of  *)
(* the train frame that survive pruning with threshold t                    *)

\* entity_frequency: occurrences as subject or object (pd.concat(...).value_counts())
entity_frequency(rows, e) == Count(Column(rows, 1) \o Column(rows, 3), e)
\* relation_frequency: occurrences in the relation column
relation_frequency(rows, p) == Count(Column(rows, 2), p)

LowFrequencyEntitiesBelow(rows, t) ==
    {e \in Range(Column(rows, 1) \o Column(rows, 3)) : entity_frequency(rows, e) < t}
low_frequency_entities(rows, t) ==
    {e \in Range(Column(rows, 1) \o Column(rows, 3)) : entity_frequency(rows, e) <= t}

low_frequency_relation(rows, t) ==
    {p \in Range(Column(rows, 2)) : relation_frequency(rows, p) <= t}

RemoveTriplesBySubjectAndRelation(rows, t) ==
    LET lowE == low_frequency_entities(rows, t)
        lowR == low_frequency_relation(rows, t)
        s1 == SelectSeq(rows, LAMBDA row : row[1] \notin lowE)
    IN  SelectSeq(s1, LAMBDA row : row[2] \notin lowR)

remove_triples_from_train_with_condition(rows, t) ==
    LET lowE == low_frequency_entities(rows, t)
        lowR == low_frequency_relation(rows, t)
        s1 == SelectSeq(rows, LAMBDA row : row[1] \notin lowE)
        s2 == SelectSeq(s1, LAMBDA row : row[3] \notin lowE)
    IN  SelectSeq(s2, LAMBDA row : row[2] \notin lowR)

-----------------------------------------------------------------------------
(* Functions of static_funcs and sanity_checkers, which knowledge_graph.py  *)
(* imports (lines 11-14); their contracts are sections 4.2, 4.5, 4.7, 4.8   *)

\* create_recipriocal_triples_from_dask: (s,p,o) plus (o, p_inverse, s)
create_recipriocal_triples(rows) ==
    rows \o [i \in 1..Len(rows) |-> <<rows[i][3], rows[i][2] \o "_inverse", rows[i][1]>>]

\* add_noisy_triples draws its triples from the strings of the train set
NoiseCandidates(rows) ==
    Range(Column(rows, 1) \o Column(rows, 3)) \X Range(Column(rows, 2))
        \X Range(Column(rows, 1) \o Column(rows, 3))

\* index_triples raises on a string that the vocabulary does not hold
InVocabulary(rows, e2i, r2i) ==
    \A i \in DOMAIN rows : /\ rows[i][1] \in DOMAIN e2i
                           /\ rows[i][2] \in DOMAIN r2i
                           /\ rows[i][3] \in DOMAIN e2i

index_triples(rows, e2i, r2i) ==
    [i \in 1..Len(rows) |-> <<e2i[rows[i][1]], r2i[rows[i][2]], e2i[rows[i][3]]>>]

\* numpy_data_type_changer: the smallest unsigned width that holds num - 1;
\* astype keeps the low bits of a value that does not fit
\* (vocabularies of the model stay far below the 32- and 64-bit widths)
UnsignedModulus(num) ==
    IF num - 1 < 256 THEN 256 ELSE 65536

numpy_data_type_changer(rows, num) ==
    [i \in 1..Len(rows) |-> <<rows[i][1] % UnsignedModulus(num),
                              rows[i][2] % UnsignedModulus(num),
                              rows[i][3] % UnsignedModulus(num)>>]

\* dataset_sanity_checking: the assertion it makes
dataset_sanity_checking(rows, ne, nr) ==
    \A i \in DOMAIN rows : /\ 0 <= rows[i][1] /\ rows[i][1] < ne
                           /\ 0 <= rows[i][3] /\ rows[i][3] < ne
                           /\ 0 <= rows[i][2] /\ rows[i][2] < nr

\* get_er_vocab, get_re_vocab, get_ee_vocab: pair -> set of completions
get_er_vocab(data) ==
    [k \in {<<t[1], t[2]>> : t \in Range(data)} |->
        {t[3] : t \in {u \in Range(data) : <<u[1], u[2]>> = k}}]

get_re_vocab(data) ==
    [k \in {<<t[2], t[3]>> : t \in Range(data)} |->
        {t[1] : t \in {u \in Range(data) : <<u[2], u[3]>> = k}}]

get_ee_vocab(data) ==
    [k \in {<<t[1], t[3]>> : t \in Range(data)} |->
        {t[2] : t \in {u \in Range(data) : <<u[1], u[3]>> = k}}]

\* create_constraints: per relation id, the subjects and the objects seen with it
create_constraints(data) ==
    <<[p \in Range(Column(data, 2)) |-> {t[1] : t \in {u \in Range(data) : u[2] = p}}],
      [p \in Range(Column(data, 2)) |-> {t[3] : t \in {u \in Range(data) : u[2] = p}}]>>

-----------------------------------------------------------------------------
(* The constructor's parameters (lines 31-36) and the contents of data_dir  *)

StoragePath == "P"

\* entity_to_idx / relation_to_idx frames a caller may pass: the vocabulary of
\* this corpus, the vocabulary of another corpus (no "c"), and a frame whose
\* ids are not 0..N-1
SuppliedEntityFrames ==
    { <<<<"a", 0>>, <<"b", 1>>, <<"c", 2>>>>,
      <<<<"a", 0>>, <<"b", 1>>>>,
      <<<<"a", 0>>, <<"b", 256>>, <<"c", 7>>>> }
SuppliedRelationFrames == { <<<<"r", 0>>, <<"q", 1>>>> }

\* rows of the train split of the large corpora
TrainPool ==
    { <<"a", "r", "b">>, <<"b", "r", "a">>, <<"a", "r", "a">>, <<"c", "r", "a">>,
      <<"c", "q", "a">>, <<"a", "q", "c">>, <<"b", "q", "c">>, <<"c", "r", "b">>,
      <<"b", "q", "b">>, <<"a", "q", "b">> }
\* rows of the optional splits of the large corpora
ValidPool == { <<"c", "q", "a">>, <<"a", "r", "b">> }
TestPool == { <<"b", "q", "c">>, <<"a", "r", "a">> }
\* rows of the small corpora
SmallPool == { <<"a", "r", "b">>, <<"b", "q", "c">> }

OptionalSplit(pool) == {None} \cup {Some(<<t>>) : t \in pool}
Optional(S) == {None} \cup {Some(x) : x \in S}

\* large corpora, built and serialized by the pipeline itself
ArgsLargeCorpus ==
    [ train : SeqsUpTo(TrainPool, MaxTrain),
      valid : OptionalSplit(ValidPool),
      test : OptionalSplit(TestPool),
      add_reciprical : {FALSE},
      eval_model : {TRUE},
      add_noise_rate : {None},
      min_freq_for_vocab : {None, Some(1)},
      path_for_serialization : {Some(StoragePath)},
      entity_to_idx : {None},
      relation_to_idx : {None} ]

\* small corpora, every combination of the flags, no noise
ArgsSmallCorpus ==
    [ train : SeqsUpTo(SmallPool, MaxSmallTrain),
      valid : OptionalSplit(SmallPool),
      test : OptionalSplit(SmallPool),
      add_reciprical : BOOLEAN,
      eval_model : BOOLEAN,
      add_noise_rate : {None},
      min_freq_for_vocab : {None, Some(0), Some(1)},
      path_for_serialization : {None, Some(StoragePath)},
      entity_to_idx : {None},
      relation_to_idx : {None} ]

\* one-row corpora with noise injection
ArgsNoisy ==
    [ train : {<<t>> : t \in SmallPool},
      valid : OptionalSplit(SmallPool),
      test : OptionalSplit(SmallPool),
      add_reciprical : BOOLEAN,
      eval_model : BOOLEAN,
      add_noise_rate : {Some(NoiseRate)},
      min_freq_for_vocab : {None},
      path_for_serialization : {Some(StoragePath)},
      entity_to_idx : {None},
      relation_to_idx : {None} ]

\* small corpora with vocabularies passed by the caller
ArgsSupplied ==
    [ train : SeqsUpTo(SmallPool, MaxSmallTrain),
      valid : OptionalSplit(SmallPool),
      test : OptionalSplit(SmallPool),
      add_reciprical : {FALSE},
      eval_model : BOOLEAN,
      add_noise_rate : {None},
      min_freq_for_vocab : {None, Some(0), Some(1)},
      path_for_serialization : {None, Some(StoragePath)},
      entity_to_idx : Optional(SuppliedEntityFrames),
      relation_to_idx : Optional(SuppliedRelationFrames) ]

ArgSpace == ArgsLargeCorpus \cup ArgsSmallCorpus \cup ArgsNoisy \cup ArgsSupplied

EmptyStorage ==
    [ entity_to_idx |-> None, relation_to_idx |-> None, idx_train_df |-> None,
      valid_df |-> None, idx_valid_df |-> None, test_df |-> None, idx_test_df |-> None ]

LpIdle == [pc |-> "idle"]
NoError == [exc |-> "", at |-> ""]

\* lines 47-67: the fields as __init__ sets them before it loads anything
Init ==
    /\ args \in ArgSpace
    /\ pc = "init"
    /\ error = NoError
    /\ mode = "fresh"
    /\ train_set = None
    /\ valid_set = None
    /\ test_set = None
    /\ entity_to_idx = args.entity_to_idx
    /\ relation_to_idx = args.relation_to_idx
    /\ num_entities = None
    /\ num_relations = None
    /\ er_vocab = None
    /\ re_vocab = None
    /\ ee_vocab = None
    /\ constraints_per_rel = None
    /\ disk = EmptyStorage
    /\ built = None
    /\ lp = LpIdle

\* an exception leaves __init__: the construction ends
Raise(e) == pc' = "aborted" /\ error' = [exc |-> e, at |-> pc]

evalvars == <<er_vocab, re_vocab, ee_vocab, constraints_per_rel>>
vocabvars == <<entity_to_idx, relation_to_idx, num_entities, num_relations>>

\* KG.load_read_process, lines 303-322 (called at line 80)
LoadReadProcess ==
    /\ pc = "init"
    /\ train_set' = Some(args.train)
    /\ valid_set' = args.valid
    /\ test_set' = args.test
    /\ pc' = "loaded"
    /\ UNCHANGED <<args, error, mode, vocabvars, evalvars, disk, built, lp>>

\* the number of triples add_noisy_triples appends (rate in percent)
NumNoisyTriples(rows, rate) == (Len(rows) * rate + 50) \div 100

\* line 327 with the flag alone
ReciprocalEnabledByFlagAlone == args.add_reciprical

\* line 327: if self.add_reciprical and self.eval_model
ReciprocalEnabled == args.add_reciprical /\ args.eval_model

\* noise drawn first, the reciprocal triples added to the result
NoiseThenReciprocal(rows) ==
    LET k == IF args.add_noise_rate.some
             THEN NumNoisyTriples(rows, args.add_noise_rate.val) ELSE 0
    IN  { IF ReciprocalEnabled THEN create_recipriocal_triples(rows \o noise)
                               ELSE rows \o noise :
              noise \in [1..k -> NoiseCandidates(rows)] }

\* lines 331 and 339-341: the train sets the two steps can produce, the
\* reciprocal triples first, the noise drawn from the result
ReciprocalThenNoise(rows) ==
    LET t1 == IF ReciprocalEnabled THEN create_recipriocal_triples(rows) ELSE rows
        k == IF args.add_noise_rate.some
             THEN NumNoisyTriples(t1, args.add_noise_rate.val) ELSE 0
    IN  { t1 \o noise : noise \in [1..k -> NoiseCandidates(t1)] }

\* KG.apply_reciprical_or_noise, lines 324-342 (called at line 82)
ApplyRecipricalOrNoise ==
    /\ pc = "loaded"
    /\ \E augmented \in ReciprocalThenNoise(train_set.val) :
          train_set' = Some(augmented)
    /\ valid_set' = IF ReciprocalEnabled /\ valid_set.some
                    THEN Some(create_recipriocal_triples(valid_set.val))
                    ELSE valid_set
    /\ test_set' = IF ReciprocalEnabled /\ test_set.some
                   THEN Some(create_recipriocal_triples(test_set.val))
                   ELSE test_set
    /\ pc' = "augmented"
    /\ UNCHANGED <<args, error, mode, vocabvars, evalvars, disk, built, lp>>

Rows(split) == IF split.some THEN split.val ELSE <<>>

\* lines 242-250: pd.concat of train, valid (if any), test (if any)
ConcatSplits(train, valid, test) == train \o Rows(valid) \o Rows(test)

\* lines 256-257 and 264-267: the two vocabulary frames
EntityFrameNotUnique(df_str_kg) == VocabFrame(RavelSubjectObject(df_str_kg))
EntityFrame(df_str_kg) == VocabFrame(Unique(RavelSubjectObject(df_str_kg)))
RelationFrame(df_str_kg) == VocabFrame(Unique(RavelRelation(df_str_kg)))

\* KG.sequential_vocabulary_construction, lines 224-272 (called at line 85),
\* with remove_triples_from_train_with_condition (lines 274-301) called at line 240
SequentialVocabularyConstruction ==
    /\ pc = "augmented"
    /\ args.entity_to_idx = None /\ args.relation_to_idx = None
    /\ IF args.min_freq_for_vocab.some /\ ~(args.min_freq_for_vocab.val > 0)
       THEN \* line 277: assert self.min_freq_for_vocab > 0
            /\ Raise("AssertionError")
            /\ UNCHANGED <<train_set, entity_to_idx, relation_to_idx, disk>>
       ELSE LET pruned == IF args.min_freq_for_vocab.some
                          THEN remove_triples_from_train_with_condition(
                                   train_set.val, args.min_freq_for_vocab.val)
                          ELSE train_set.val
                df_str_kg == ConcatSplits(pruned, valid_set, test_set)
            IN  /\ train_set' = Some(pruned)
                /\ entity_to_idx' = Some(EntityFrame(df_str_kg))
                /\ IF args.path_for_serialization = None
                   THEN \* line 260: None + '/entity_to_idx.gzip'
                        /\ Raise("TypeError")
                        /\ UNCHANGED <<relation_to_idx, disk>>
                   ELSE /\ relation_to_idx' = Some(RelationFrame(df_str_kg))
                        /\ disk' = [disk EXCEPT
                               !.entity_to_idx = Some(EntityFrame(df_str_kg)),
                               !.relation_to_idx = Some(RelationFrame(df_str_kg))]
                        /\ pc' = "vocabulary"
                        /\ UNCHANGED error
    /\ UNCHANGED <<args, mode, valid_set, test_set, num_entities, num_relations,
                   evalvars, built, lp>>

\* KG.__init__, lines 86-112: the vocabularies were built by the pipeline
IndexTrain ==
    /\ pc = "vocabulary"
    /\ LET e2i == ToDict(entity_to_idx.val)
           r2i == ToDict(relation_to_idx.val)
       IN  /\ entity_to_idx' = Some(e2i)
           /\ relation_to_idx' = Some(r2i)
           /\ num_entities' = Some(Cardinality(DOMAIN e2i))
           /\ num_relations' = Some(Cardinality(DOMAIN r2i))
           /\ IF ~InVocabulary(train_set.val, e2i, r2i)
              THEN Raise("KeyError") /\ UNCHANGED <<train_set, disk>>
              ELSE /\ train_set' = Some(index_triples(train_set.val, e2i, r2i))
                   /\ disk' = IF args.path_for_serialization # None
                              THEN [disk EXCEPT !.idx_train_df =
                                       Some(index_triples(train_set.val, e2i, r2i))]
                              ELSE disk
                   /\ pc' = "train_indexed"
                   /\ UNCHANGED error
    /\ UNCHANGED <<args, mode, valid_set, test_set, evalvars, built, lp>>

\* KG.__init__, lines 113-140: entity_to_idx or relation_to_idx was passed
IndexTrainWithSuppliedVocabulary ==
    /\ pc = "augmented"
    /\ ~(args.entity_to_idx = None /\ args.relation_to_idx = None)
    /\ IF entity_to_idx = None \/ relation_to_idx = None
       THEN \* lines 120-121: None.to_dict()
            /\ Raise("AttributeError")
            /\ UNCHANGED <<train_set, vocabvars>>
       ELSE LET e2i == ToDict(entity_to_idx.val)
                r2i == ToDict(relation_to_idx.val)
            IN  /\ entity_to_idx' = Some(e2i)
                /\ relation_to_idx' = Some(r2i)
                /\ num_entities' = Some(Cardinality(DOMAIN e2i))
                /\ num_relations' = Some(Cardinality(DOMAIN r2i))
                /\ IF ~InVocabulary(train_set.val, e2i, r2i)
                   THEN Raise("KeyError") /\ UNCHANGED train_set
                   ELSE /\ train_set' = Some(index_triples(train_set.val, e2i, r2i))
                        /\ pc' = "train_indexed"
                        /\ UNCHANGED error
    /\ UNCHANGED <<args, mode, valid_set, test_set, evalvars, disk, built, lp>>

\* KG.__init__, lines 142-147: the train set is narrowed, then checked
SanityCheckTrain ==
    /\ pc = "train_indexed"
    /\ LET narrowed == numpy_data_type_changer(
                           train_set.val, Max2(num_entities.val, num_relations.val))
       IN  /\ train_set' = Some(narrowed)
           /\ IF dataset_sanity_checking(narrowed, num_entities.val, num_relations.val)
              THEN pc' = "train_checked" /\ UNCHANGED error
              ELSE Raise("AssertionError")
    /\ UNCHANGED <<args, mode, valid_set, test_set, vocabvars, evalvars, disk, built, lp>>

\* an indexer that leaves out the rows holding an unknown string
ProcessOptionalSplitDroppingRows(split, str_file, idx_file) ==
    IF ~split.some THEN <<split, str_file, idx_file, "">>
    ELSE LET known(t) == /\ t[1] \in DOMAIN entity_to_idx.val
                         /\ t[2] \in DOMAIN relation_to_idx.val
                         /\ t[3] \in DOMAIN entity_to_idx.val
             indexed == index_triples(SelectSeq(split.val, known),
                                      entity_to_idx.val, relation_to_idx.val)
         IN  <<Some(indexed), str_file, idx_file, "">>

\* lines 148-165 (valid) and 166-183 (test) run the same steps on one optional
\* split: write the string split, index it, write the indexed split, check it,
\* narrow it.  The result is <<the split, the two files, the exception or "">>.
ProcessOptionalSplit(split, str_file, idx_file) ==
    IF ~split.some THEN <<split, str_file, idx_file, "">>
    ELSE LET path == args.path_for_serialization # None
             str_out == IF path THEN Some(split.val) ELSE str_file
             indexed == index_triples(split.val, entity_to_idx.val, relation_to_idx.val)
             idx_out == IF path THEN Some(indexed) ELSE idx_file
         IN  IF ~InVocabulary(split.val, entity_to_idx.val, relation_to_idx.val)
             THEN <<split, str_out, idx_file, "KeyError">>
             ELSE IF ~dataset_sanity_checking(indexed, num_entities.val, num_relations.val)
             THEN <<Some(indexed), str_out, idx_out, "AssertionError">>
             ELSE <<Some(numpy_data_type_changer(
                            indexed, Max2(num_entities.val, num_relations.val))),
                    str_out, idx_out, "">>

\* KG.__init__, lines 148-165
ProcessValid ==
    /\ pc = "train_checked"
    /\ LET r == ProcessOptionalSplit(valid_set, disk.valid_df, disk.idx_valid_df)
       IN  /\ valid_set' = r[1]
           /\ disk' = [disk EXCEPT !.valid_df = r[2], !.idx_valid_df = r[3]]
           /\ IF r[4] = "" THEN pc' = "valid_done" /\ UNCHANGED error ELSE Raise(r[4])
    /\ UNCHANGED <<args, mode, train_set, test_set, vocabvars, evalvars, built, lp>>

\* KG.__init__, lines 166-183
ProcessTest ==
    /\ pc = "valid_done"
    /\ LET r == ProcessOptionalSplit(test_set, disk.test_df, disk.idx_test_df)
       IN  /\ test_set' = r[1]
           /\ disk' = [disk EXCEPT !.test_df = r[2], !.idx_test_df = r[3]]
           /\ IF r[4] = "" THEN pc' = "test_done" /\ UNCHANGED error ELSE Raise(r[4])
    /\ UNCHANGED <<args, mode, train_set, valid_set, vocabvars, evalvars, built, lp>>

\* lines 185-190 and 202-206: the triples the evaluation maps are built from
EvaluationData(train, valid, test) ==
    IF valid.some /\ test.some THEN train.val \o valid.val \o test.val ELSE train.val

\* KG.__init__, lines 184-197 (fresh) and 201-214 (after deserialize)
CreateEvaluationVocab ==
    /\ pc \in {"test_done", "deserialized"}
    /\ IF args.eval_model
       THEN LET data == EvaluationData(train_set, valid_set, test_set)
            IN  /\ er_vocab' = Some(get_er_vocab(data))
                /\ re_vocab' = Some(get_re_vocab(data))
                /\ ee_vocab' = Some(get_ee_vocab(data))
                /\ constraints_per_rel' = Some(create_constraints(train_set.val))
       ELSE UNCHANGED evalvars
    /\ pc' = "done"
    /\ UNCHANGED <<args, error, mode, train_set, valid_set, test_set, vocabvars,
                   disk, built, lp>>

\* what the caller holds of a KG whose construction completed
ThisKG ==
    [ entity_to_idx |-> entity_to_idx, relation_to_idx |-> relation_to_idx,
      num_entities |-> num_entities, num_relations |-> num_relations,
      train_set |-> train_set, valid_set |-> valid_set, test_set |-> test_set ]

\* KG.deserialize reads these files outside any try block (lines 349, 355, 369);
\* the reads of idx_valid_df and idx_test_df are inside try / except FileNotFoundError
UncaughtReadsStrict == {"entity_to_idx", "relation_to_idx", "idx_train_df", "idx_valid_df", "idx_test_df"}
UncaughtReads == {"entity_to_idx", "relation_to_idx", "idx_train_df"}

\* A later KG(deserialize_flag = the storage path): lines 47-63, then
\* KG.deserialize, lines 344-385 (called at line 199).  read_parquet of a
\* missing file raises FileNotFoundError.
DeserializeKG ==
    /\ pc \in {"done", "aborted"}
    /\ mode = "fresh"
    /\ args.path_for_serialization # None
    /\ mode' = "deserialize"
    /\ built' = IF pc = "done" THEN Some(ThisKG) ELSE None
    /\ er_vocab' = None /\ re_vocab' = None /\ ee_vocab' = None
    /\ constraints_per_rel' = None
    /\ LET missing(f) == f \in UncaughtReads /\ disk[f] = None
           fail_entity == missing("entity_to_idx")
           fail_relation == fail_entity \/ missing("relation_to_idx")
           fail_train == fail_relation \/ missing("idx_train_df")
           fail_valid == fail_train \/ missing("idx_valid_df")
           fail_test == fail_valid \/ missing("idx_test_df")
       IN  /\ num_entities' = IF fail_entity THEN None
                              ELSE Some(Len(disk.entity_to_idx.val))
           /\ num_relations' = IF fail_relation THEN None
                               ELSE Some(Len(disk.relation_to_idx.val))
           /\ entity_to_idx' = IF fail_entity THEN None
                               ELSE IF fail_relation THEN disk.entity_to_idx
                               ELSE Some(ToDict(disk.entity_to_idx.val))
           /\ relation_to_idx' = IF fail_relation THEN None
                                 ELSE Some(ToDict(disk.relation_to_idx.val))
           /\ train_set' = IF fail_train THEN None ELSE disk.idx_train_df
           /\ valid_set' = IF fail_valid THEN None ELSE disk.idx_valid_df
           /\ test_set' = IF fail_test THEN None ELSE disk.idx_test_df
           /\ IF fail_test
              THEN Raise("FileNotFoundError")
              ELSE pc' = "deserialized" /\ error' = NoError
    /\ UNCHANGED <<args, disk, lp>>

Next ==
    \/ LoadReadProcess
    \/ ApplyRecipricalOrNoise
    \/ SequentialVocabularyConstruction
    \/ IndexTrain
    \/ IndexTrainWithSuppliedVocabulary
    \/ SanityCheckTrain
    \/ ProcessValid
    \/ ProcessTest
    \/ CreateEvaluationVocab
    \/ DeserializeKG

Spec == Init /\ [][Next]_vars

-----------------------------------------------------------------------------
(* Execute.evaluate_lp, src/executer.py lines 247-315: one call on a dataset *)
(* whose construction has completed.  lp.pc is the position of the call.    *)

MaxTest == 1     \* the longest triple_idx a call is given
MaxScore == 1    \* the model's scores are 0..MaxScore

\* -np.Inf (line 278): below every score of the model
NegInf == 0 - 1
Scores == 0..MaxScore
\* the hit levels of range(1, 11), line 301
HitLevels == 1..10

RECURSIVE SumSeq(_)
SumSeq(s) == IF s = <<>> THEN 0 ELSE Head(s) + SumSeq(Tail(s))
RECURSIVE Factorial(_)
Factorial(n) == IF n <= 1 THEN 1 ELSE n * Factorial(n - 1)

\* the corpora of the datasets the calls are made on
LpCorpora ==
    { << <<"b", "r", "c">>, <<"b", "r", "a">> >>,
      << <<"b", "r", "c">>, <<"a", "r", "c">>, <<"b", "q", "c">> >>,
      << <<"a", "r", "b">>, <<"a", "r", "c">>, <<"b", "r", "c">>, <<"c", "q", "a">> >> }
LpEntityFrame == << <<"a", 0>>, <<"b", 1>>, <<"c", 2>> >>
LpRelationFrame == << <<"r", 0>>, <<"q", 1>> >>

\* self.dataset.get_er_idx_vocab() and get_po_idx_vocab(), lines 252-253
get_er_idx_vocab == er_vocab.val
get_po_idx_vocab == re_vocab.val

\* torch.arange(0, num_entities), line 260
AllEntities == 0..(num_entities.val - 1)

\* model.forward_triples, lines 264-270: any score for every candidate
Predictions == [AllEntities -> Scores]

\* lines 277-279 and 287-289: without restoring the target's score
FilteredScoresTargetNotRestored(predictions, filt, target) ==
    [e \in DOMAIN predictions |-> IF e \in filt THEN NegInf ELSE predictions[e]]

\* lines 277-279 and 287-289: the filter set is overwritten with -inf, then
\* the target gets its own score back
FilteredScores(predictions, filt, target) ==
    LET target_value == predictions[target]
        overwritten == [e \in DOMAIN predictions |->
                           IF e \in filt THEN NegInf ELSE predictions[e]]
    IN  [overwritten EXCEPT ![target] = target_value]

\* torch.sort(descending=True), lines 280 and 290: the index orders it may
\* return; the order of candidates with equal scores is not determined
SortIdxs(scores) ==
    { perm \in [1..Cardinality(DOMAIN scores) -> DOMAIN scores] :
        /\ \A i, j \in DOMAIN perm : i # j => perm[i] # perm[j]
        /\ \A i, j \in DOMAIN perm : i < j => scores[perm[i]] >= scores[perm[j]] }

\* np.where(sort_idxs == x)[0][0], lines 282 and 292
Where(sort_idxs, x) == (CHOOSE k \in DOMAIN sort_idxs : sort_idxs[k] = x) - 1

\* self.dataset: a KG whose construction from a corpus, with the caller's
\* vocabularies and eval_model, has completed
CompletedKG(corpus) ==
    LET data == index_triples(corpus, ToDict(LpEntityFrame), ToDict(LpRelationFrame))
    IN  /\ args = [ train |-> corpus, valid |-> None, test |-> None,
                    add_reciprical |-> FALSE, eval_model |-> TRUE,
                    add_noise_rate |-> None, min_freq_for_vocab |-> None,
                    path_for_serialization |-> None,
                    entity_to_idx |-> Some(LpEntityFrame),
                    relation_to_idx |-> Some(LpRelationFrame) ]
        /\ train_set = Some(data)
        /\ er_vocab = Some(get_er_vocab(data))
        /\ re_vocab = Some(get_re_vocab(data))
        /\ ee_vocab = Some(get_ee_vocab(data))
        /\ constraints_per_rel = Some(create_constraints(data))
        /\ pc = "done"
        /\ error = NoError
        /\ mode = "fresh"
        /\ valid_set = None /\ test_set = None
        /\ entity_to_idx = Some(ToDict(LpEntityFrame))
        /\ relation_to_idx = Some(ToDict(LpRelationFrame))
        /\ num_entities = Some(Len(LpEntityFrame))
        /\ num_relations = Some(Len(LpRelationFrame))
        /\ disk = EmptyStorage
        /\ built = None

InitLP ==
    /\ \E corpus \in LpCorpora : CompletedKG(corpus)
    /\ lp = LpIdle

\* what a call of evaluate_lp leaves alone
kgstate == <<args, pc, error, kgvars, disk, built>>

\* lines 247-253: the call starts on a list of triples of the dataset
EvaluateLP ==
    /\ lp.pc = "idle"
    /\ \E triple_idx \in SeqsUpTo(Range(train_set.val), MaxTest) :
          lp' = [ pc |-> "loop", triple_idx |-> triple_idx, i |-> 1,
                  hits |-> [l \in {} |-> <<>>], reciprocal_ranks |-> <<>>,
                  predictions |-> <<>>, filtered |-> <<>>, sort_idxs |-> <<>>,
                  filt_tail_entity_rank |-> 0, filt_head_entity_rank |-> 0,
                  raised |-> "", results |-> None ]
    /\ UNCHANGED kgstate

\* lines 255-282 of one iteration: the tail scores, their filter and the
\* position of the target among the sorted candidates
FilteredTailRank ==
    /\ lp.pc = "loop" /\ lp.i <= Len(lp.triple_idx)
    /\ LET s == lp.triple_idx[lp.i][1]
           p == lp.triple_idx[lp.i][2]
           o == lp.triple_idx[lp.i][3]
           filt_tails == get_er_idx_vocab[<<s, p>>]
       IN  \E predictions_tails \in Predictions :
             LET filtered == FilteredScores(predictions_tails, filt_tails, o)
             IN  \E sort_idxs \in SortIdxs(filtered) :
                   lp' = [lp EXCEPT !.pc = "tail_ranked",
                                    !.predictions = predictions_tails,
                                    !.filtered = filtered,
                                    !.sort_idxs = sort_idxs,
                                    !.filt_tail_entity_rank = Where(sort_idxs, o)]
    /\ UNCHANGED kgstate

\* lines 301-305: hits after the ranks of one triple
UpdateHits(hits, head_rank, tail_rank) ==
    LET I(l) == (IF head_rank <= l THEN 1 ELSE 0) + (IF tail_rank <= l THEN 1 ELSE 0)
        levels == {l \in HitLevels : I(l) > 0}
    IN  [l \in DOMAIN hits \cup levels |->
            IF l \in levels
            THEN (IF l \in DOMAIN hits THEN hits[l] ELSE <<>>) \o <<I(l)>>
            ELSE hits[l]]

\* lines 284-305 of one iteration: the head scores, their filter, the position
\* of the target, both ranks made 1-based, reciprocal ranks and hits stored
FilteredHeadRank ==
    /\ lp.pc = "tail_ranked"
    /\ LET s == lp.triple_idx[lp.i][1]
           p == lp.triple_idx[lp.i][2]
           o == lp.triple_idx[lp.i][3]
           filt_heads == get_po_idx_vocab[<<p, o>>]
       IN  \E predictions_heads \in Predictions :
             LET filtered == FilteredScores(predictions_heads, filt_heads, s)
             IN  \E sort_idxs \in SortIdxs(filtered) :
                   LET head_rank == Where(sort_idxs, s) + 1
                       tail_rank == lp.filt_tail_entity_rank + 1
                   IN  lp' = [lp EXCEPT !.pc = "loop",
                                        !.i = lp.i + 1,
                                        !.predictions = predictions_heads,
                                        !.filtered = filtered,
                                        !.sort_idxs = sort_idxs,
                                        !.filt_head_entity_rank = head_rank,
                                        !.filt_tail_entity_rank = tail_rank,
                                        !.reciprocal_ranks = @ \o << <<head_rank, tail_rank>> >>,
                                        !.hits = UpdateHits(@, head_rank, tail_rank)]
    /\ UNCHANGED kgstate

\* the sum of 1/head_rank + 1/tail_rank, as a multiple of 1/Factorial(num_entities)
ReciprocalRankSum(reciprocal_ranks) ==
    SumSeq([k \in DOMAIN reciprocal_ranks |->
               Factorial(num_entities.val) \div reciprocal_ranks[k][1]
                   + Factorial(num_entities.val) \div reciprocal_ranks[k][2]])

\* lines 307-315: the metrics; a division by len(triple_idx) * 2 = 0 raises
\* ZeroDivisionError, a hit level no triple reached raises KeyError
ComputeMetrics ==
    /\ lp.pc = "loop" /\ lp.i > Len(lp.triple_idx)
    /\ lp' = IF Len(lp.triple_idx) = 0
             THEN [lp EXCEPT !.pc = "raised", !.raised = "ZeroDivisionError"]
             ELSE IF {1, 3, 10} \subseteq DOMAIN lp.hits
             THEN [lp EXCEPT !.pc = "returned",
                             !.results = Some(
                                 [ H1 |-> SumSeq(lp.hits[1]), H3 |-> SumSeq(lp.hits[3]),
                                   H10 |-> SumSeq(lp.hits[10]),
                                   MRR |-> ReciprocalRankSum(lp.reciprocal_ranks),
                                   over |-> Len(lp.triple_idx) * 2 ])]
             ELSE [lp EXCEPT !.pc = "raised", !.raised = "KeyError"]
    /\ UNCHANGED kgstate

NextLP ==
    \/ EvaluateLP
    \/ FilteredTailRank
    \/ FilteredHeadRank
    \/ ComputeMetrics

SpecLP == InitLP /\ [][NextLP]_vars

-----------------------------------------------------------------------------
(* Execute.evaluate_lp_k_vs_all, src/executer.py lines 182-245: one call on *)
(* a dataset whose construction has completed.  The rows of a batch are     *)
(* scored, filtered and ranked independently of each other; a step of the   *)
(* model is one row.                                                        *)

\* the corpora of the datasets the calls are made on
KvsAllCorpora ==
    { << <<"a", "r", "b">>, <<"a", "r", "c">>, <<"b", "r", "c">>, <<"c", "q", "a">> >>,
      << <<"a", "r", "c">>, <<"a", "q", "a">> >>,
      << <<"a", "r", "c">>, <<"a", "q", "c">> >> }

\* model.forward_k_vs_all, lines 199 and 222: any score, negative, zero or
\* positive, for every candidate
KvsAllScores == (0 - MaxScore)..MaxScore
AllRelations == 0..(num_relations.val - 1)

\* the evaluation multi-maps of the dataset (get_ee_idx_vocab, line 191;
\* get_er_idx_vocab, line 215): a pair nothing was seen with has no completion
Lookup(vocab, key) == IF key \in DOMAIN vocab THEN vocab[key] ELSE {}

\* lines 202-204 and 225-227: the filter set is overwritten with 0.0, then the
\* target gets its own score back
FilteredWithZero(predictions, filt, target) ==
    LET target_value == predictions[target]
        overwritten == [c \in DOMAIN predictions |->
                           IF c \in filt THEN 0 ELSE predictions[c]]
    IN  [overwritten EXCEPT ![target] = target_value]

\* lines 211-213 and 234-236: hits[hits_level] gets a 1.0 for every level the
\* 0-based rank does not exceed; hits[l] of the model is the sum of hits[l]
UpdateHitsKvsAll(hits, rank) ==
    [l \in DOMAIN hits |-> IF rank <= l THEN hits[l] + 1 ELSE hits[l]]

InitKvsAll ==
    /\ \E corpus \in KvsAllCorpora : CompletedKG(corpus)
    /\ lp = LpIdle

\* lines 182-191 and 215: the call starts on a list of triples of the dataset
EvaluateLPKvsAll ==
    /\ lp.pc = "idle"
    /\ \E triple_idx \in SeqsUpTo(Range(train_set.val), MaxTest),
          form_of_labelling \in {"RelationPrediction", "EntityPrediction"} :
          lp' = [ pc |-> "loop", form_of_labelling |-> form_of_labelling,
                  triple_idx |-> triple_idx, i |-> 1,
                  hits |-> [l \in 0..9 |-> 0], ranks |-> <<>>,
                  filt |-> {}, predictions |-> <<>>, filtered |-> <<>>,
                  sort_idxs |-> <<>>, raised |-> "", results |-> None ]
    /\ UNCHANGED kgstate

\* one row of a batch ranked: scores over the candidates, the filter set
\* overwritten, the target restored, the descending sort, rank and hits
RankRow(candidates, filt, target) ==
    \E predictions \in [candidates -> KvsAllScores] :
      LET filtered == FilteredWithZero(predictions, filt, target)
      IN  \E sort_idxs \in SortIdxs(filtered) :
            LET rank == Where(sort_idxs, target)
            IN  lp' = [lp EXCEPT !.i = lp.i + 1,
                                 !.filt = filt,
                                 !.predictions = predictions,
                                 !.filtered = filtered,
                                 !.sort_idxs = sort_idxs,
                                 !.ranks = @ \o <<rank + 1>>,
                                 !.hits = UpdateHitsKvsAll(@, rank)]

\* lines 194-213, one row: relation prediction; the filter set is looked up
\* in ee_vocab with data_batch[j][0] and data_batch[j][1]
RankRelation ==
    /\ lp.pc = "loop" /\ lp.form_of_labelling = "RelationPrediction"
    /\ lp.i <= Len(lp.triple_idx)
    /\ LET row == lp.triple_idx[lp.i]
       IN  RankRow(AllRelations, Lookup(ee_vocab.val, <<row[1], row[2]>>), row[2])
    /\ UNCHANGED kgstate

\* lines 217-236, one row: entity prediction; the filter set is looked up in
\* er_vocab with the same two columns
RankEntity ==
    /\ lp.pc = "loop" /\ lp.form_of_labelling = "EntityPrediction"
    /\ lp.i <= Len(lp.triple_idx)
    /\ LET row == lp.triple_idx[lp.i]
       IN  RankRow(AllEntities, Lookup(er_vocab.val, <<row[1], row[2]>>), row[3])
    /\ UNCHANGED kgstate

\* lines 238-245: the metrics; the division by len(triple_idx) = 0 raises
\* ZeroDivisionError.  MRR is the sum of 1/rank as a multiple of
\* 1/Factorial(num_entities), over len(triple_idx)
KvsAllMetrics ==
    /\ lp.pc = "loop" /\ lp.i > Len(lp.triple_idx)
    /\ lp' = IF Len(lp.triple_idx) = 0
             THEN [lp EXCEPT !.pc = "raised", !.raised = "ZeroDivisionError"]
             ELSE [lp EXCEPT !.pc = "returned",
                             !.results = Some(
                                 [ H1 |-> lp.hits[0], H3 |-> lp.hits[2], H10 |-> lp.hits[9],
                                   MRR |-> SumSeq([k \in DOMAIN lp.ranks |->
                                              Factorial(num_entities.val) \div lp.ranks[k]]),
                                   over |-> Len(lp.triple_idx) ])]
    /\ UNCHANGED kgstate

NextKvsAll ==
    \/ EvaluateLPKvsAll
    \/ RankRelation
    \/ RankEntity
    \/ KvsAllMetrics

SpecKvsAll == InitKvsAll /\ [][NextKvsAll]_vars

-----------------------------------------------------------------------------
(* Properties of the pipeline                                               *)

Min(S) == CHOOSE x \in S : \A y \in S : x <= y
Image(f) == {f[x] : x \in DOMAIN f}
Injective(f) == \A x, y \in DOMAIN f : x # y => f[x] # f[y]
EntityStrings(rows) == {rows[i][1] : i \in DOMAIN rows} \cup {rows[i][3] : i \in DOMAIN rows}
RelationStrings(rows) == {rows[i][2] : i \in DOMAIN rows}
BuiltByPipeline == args.entity_to_idx = None /\ args.relation_to_idx = None
\* the string table the vocabularies were built from, while pc = "vocabulary"
StringTable == ConcatSplits(train_set.val, valid_set, test_set)

\* C1: after vocabulary construction the entity vocabulary maps the distinct
\* subject/object strings of the concatenated splits one-to-one onto 0..N-1,
\* N their number, and the relation vocabulary does the same for the distinct
\* relation strings; the dictionaries the pipeline goes on with are one-to-one
\* onto 0..num_entities-1 and 0..num_relations-1.
C1_VocabularyDensity ==
    /\ pc = "vocabulary" =>
         LET e2i == ToDict(entity_to_idx.val)
             r2i == ToDict(relation_to_idx.val)
         IN  /\ DOMAIN e2i = EntityStrings(StringTable)
             /\ Len(entity_to_idx.val) = Cardinality(EntityStrings(StringTable))
             /\ Injective(e2i)
             /\ Image(e2i) = 0..(Cardinality(EntityStrings(StringTable)) - 1)
             /\ DOMAIN r2i = RelationStrings(StringTable)
             /\ Len(relation_to_idx.val) = Cardinality(RelationStrings(StringTable))
             /\ Injective(r2i)
             /\ Image(r2i) = 0..(Cardinality(RelationStrings(StringTable)) - 1)
    /\ (mode = "fresh" /\ BuiltByPipeline
           /\ pc \in {"train_indexed", "train_checked", "valid_done", "test_done", "done"}) =>
         /\ Injective(entity_to_idx.val)
         /\ Image(entity_to_idx.val) = 0..(num_entities.val - 1)
         /\ Injective(relation_to_idx.val)
         /\ Image(relation_to_idx.val) = 0..(num_relations.val - 1)

\* C1 witness: vocabularies built from three splits in which strings repeat
C1_Witness ==
    /\ pc = "vocabulary"
    /\ valid_set.some /\ test_set.some /\ Len(train_set.val) = 2
    /\ Cardinality(EntityStrings(StringTable)) = 3
    /\ Cardinality(RelationStrings(StringTable)) = 2

\* the first row of the table in which string x occurs
FirstEntityRow(rows, x) == Min({i \in DOMAIN rows : rows[i][1] = x \/ rows[i][3] = x})
FirstRelationRow(rows, x) == Min({i \in DOMAIN rows : rows[i][2] = x})
\* the position of x's first cell when the subject column is read before the
\* object column
FirstEntityCell(rows, x) ==
    IF \E i \in DOMAIN rows : rows[i][1] = x
    THEN Min({i \in DOMAIN rows : rows[i][1] = x})
    ELSE Len(rows) + Min({i \in DOMAIN rows : rows[i][3] = x})

\* C2 (as stated): ids follow the first-seen order of the rows of the
\* concatenated table: a string first occurring in an earlier row has the
\* smaller id, for entity strings and for relation strings.
C2_FirstSeenByRow ==
    pc = "vocabulary" =>
        LET e2i == ToDict(entity_to_idx.val)
            r2i == ToDict(relation_to_idx.val)
        IN  /\ \A x, y \in DOMAIN e2i :
                 FirstEntityRow(StringTable, x) < FirstEntityRow(StringTable, y)
                    => e2i[x] < e2i[y]
            /\ \A x, y \in DOMAIN r2i :
                 FirstRelationRow(StringTable, x) < FirstRelationRow(StringTable, y)
                    => r2i[x] < r2i[y]

\* C2 (amended): relation ids follow the first-seen order of the rows of the
\* concatenated table (train, valid, test); entity ids follow the first-seen
\* order of its cells read subject column first (every row), object column next.
C2_FirstSeenByColumn ==
    pc = "vocabulary" =>
        LET e2i == ToDict(entity_to_idx.val)
            r2i == ToDict(relation_to_idx.val)
        IN  /\ \A x, y \in DOMAIN e2i :
                 FirstEntityCell(StringTable, x) < FirstEntityCell(StringTable, y)
                    => e2i[x] < e2i[y]
            /\ \A x, y \in DOMAIN r2i :
                 FirstRelationRow(StringTable, x) < FirstRelationRow(StringTable, y)
                    => r2i[x] < r2i[y]

\* C2 witness: an entity that is only an object of a train row has a larger id
\* than the subject of a later row, here a row of the valid split
C2_Witness ==
    /\ pc = "vocabulary"
    /\ valid_set.some /\ Len(train_set.val) > 0
    /\ \E x, y \in DOMAIN ToDict(entity_to_idx.val) :
          /\ FirstEntityRow(StringTable, x) <= Len(train_set.val)
          /\ FirstEntityRow(StringTable, y) > Len(train_set.val)
          /\ ToDict(entity_to_idx.val)[x] > ToDict(entity_to_idx.val)[y]
    /\ Cardinality(RelationStrings(StringTable)) = 2

\* occurrences of a string in the entity cells and in the relation cells of a table
EntityOccurrences(rows, e) ==
    Cardinality({i \in DOMAIN rows : rows[i][1] = e})
        + Cardinality({i \in DOMAIN rows : rows[i][3] = e})
RelationOccurrences(rows, p) == Cardinality({i \in DOMAIN rows : rows[i][2] = p})
InBounds(rows, ne, nr) ==
    \A i \in DOMAIN rows : /\ rows[i][1] \in 0..(ne - 1)
                           /\ rows[i][3] \in 0..(ne - 1)
                           /\ rows[i][2] \in 0..(nr - 1)
HasUnknownString(rows, e2i, r2i) ==
    \E i \in DOMAIN rows : \/ rows[i][1] \notin DOMAIN e2i
                           \/ rows[i][3] \notin DOMAIN e2i
                           \/ rows[i][2] \notin DOMAIN r2i
\* the ids the indexer gives the rows of a split whose strings are all known
Indexed(rows, e2i, r2i) ==
    [i \in DOMAIN rows |-> <<e2i[rows[i][1]], r2i[rows[i][2]], e2i[rows[i][3]]>>]

\* C3: when construction from raw data completes, every indexed triple of
\* train, valid and test is within 0..num_entities-1 / 0..num_relations-1; and
\* a split whose indexed rows hold an out-of-bound id makes construction abort.
C3_IndexBounds ==
    [][ /\ (mode' = "fresh" /\ pc' = "done") =>
              /\ InBounds(train_set'.val, num_entities'.val, num_relations'.val)
              /\ InBounds(Rows(valid_set'), num_entities'.val, num_relations'.val)
              /\ InBounds(Rows(test_set'), num_entities'.val, num_relations'.val)
        /\ (pc = "train_indexed"
              /\ ~InBounds(train_set.val, num_entities.val, num_relations.val))
              => pc' = "aborted"
        /\ (pc = "train_checked" /\ valid_set.some
              /\ ~HasUnknownString(valid_set.val, entity_to_idx.val, relation_to_idx.val)
              /\ ~InBounds(Indexed(valid_set.val, entity_to_idx.val, relation_to_idx.val),
                           num_entities.val, num_relations.val))
              => pc' = "aborted"
        /\ (pc = "valid_done" /\ test_set.some
              /\ ~HasUnknownString(test_set.val, entity_to_idx.val, relation_to_idx.val)
              /\ ~InBounds(Indexed(test_set.val, entity_to_idx.val, relation_to_idx.val),
                           num_entities.val, num_relations.val))
              => pc' = "aborted"
      ]_vars

C5_Pruning ==
    [][ (pc = "augmented" /\ BuiltByPipeline /\ args.min_freq_for_vocab.some
            /\ args.min_freq_for_vocab.val > 0)
        => /\ \A i \in DOMAIN train_set'.val :
                 /\ EntityOccurrences(train_set.val, train_set'.val[i][1])
                        > args.min_freq_for_vocab.val
                 /\ EntityOccurrences(train_set.val, train_set'.val[i][3])
                        > args.min_freq_for_vocab.val
                 /\ RelationOccurrences(train_set.val, train_set'.val[i][2])
                        > args.min_freq_for_vocab.val
           /\ Len(train_set'.val) <= Len(train_set.val)
      ]_vars

\* C5 witness: pruning dropped a triple of the train set and retained another
C5_Witness ==
    /\ pc = "vocabulary" /\ args.min_freq_for_vocab.some /\ ~args.add_reciprical
    /\ Len(train_set.val) > 0
    /\ Len(train_set.val) < Len(args.train)

PrunedEntities(rows, t) == {e \in EntityStrings(rows) : EntityOccurrences(rows, e) <= t}
PrunedRelations(rows, t) == {p \in RelationStrings(rows) : RelationOccurrences(rows, p) <= t}
FrameIndex(frame) == {frame[i][1] : i \in DOMAIN frame}

\* C6 (as stated): no string whose train count was <= t at pruning time is a
\* key of entity_to_idx or relation_to_idx, whatever valid and test hold.
C6_PrunedNeverIndexed ==
    [][ (pc = "augmented" /\ pc' = "vocabulary" /\ args.min_freq_for_vocab.some)
        => /\ PrunedEntities(train_set.val, args.min_freq_for_vocab.val)
                 \cap FrameIndex(entity_to_idx'.val) = {}
           /\ PrunedRelations(train_set.val, args.min_freq_for_vocab.val)
                 \cap FrameIndex(relation_to_idx'.val) = {}
      ]_vars

\* C6 (amended): a string whose train count was <= t at pruning time is a key
\* of entity_to_idx or relation_to_idx only if it occurs in the valid or the
\* test split.
C6_PrunedIndexedOnlyFromValidTest ==
    [][ (pc = "augmented" /\ pc' = "vocabulary" /\ args.min_freq_for_vocab.some)
        => /\ PrunedEntities(train_set.val, args.min_freq_for_vocab.val)
                 \cap FrameIndex(entity_to_idx'.val)
                 \subseteq EntityStrings(Rows(valid_set) \o Rows(test_set))
           /\ PrunedRelations(train_set.val, args.min_freq_for_vocab.val)
                 \cap FrameIndex(relation_to_idx'.val)
                 \subseteq RelationStrings(Rows(valid_set) \o Rows(test_set))
      ]_vars

\* C6 witness: a string of the raw train set was pruned and has no id, while
\* the vocabulary was also built from a valid split
C6_Witness ==
    /\ pc = "vocabulary" /\ args.min_freq_for_vocab.some /\ ~args.add_reciprical
    /\ valid_set.some
    /\ Len(train_set.val) > 0
    /\ EntityStrings(args.train) \ FrameIndex(entity_to_idx.val) # {}

\* C7: with eval_model, the evaluation maps hold exactly the triples of train
\* and of every present valid/test split: each triple's object under its
\* (subject, relation), its subject under its (relation, object), its relation
\* under its (subject, object), and nothing else.
C7_EvaluationMapsCoverSplits ==
    (pc = "done" /\ args.eval_model) =>
        LET all == Range(train_set.val \o Rows(valid_set) \o Rows(test_set))
        IN  /\ \A t \in all :
                 /\ <<t[1], t[2]>> \in DOMAIN er_vocab.val
                 /\ t[3] \in er_vocab.val[<<t[1], t[2]>>]
                 /\ <<t[2], t[3]>> \in DOMAIN re_vocab.val
                 /\ t[1] \in re_vocab.val[<<t[2], t[3]>>]
                 /\ <<t[1], t[3]>> \in DOMAIN ee_vocab.val
                 /\ t[2] \in ee_vocab.val[<<t[1], t[3]>>]
            /\ \A k \in DOMAIN er_vocab.val :
                 \A o \in er_vocab.val[k] : <<k[1], k[2], o>> \in all
            /\ \A k \in DOMAIN re_vocab.val :
                 \A x \in re_vocab.val[k] : <<x, k[1], k[2]>> \in all
            /\ \A k \in DOMAIN ee_vocab.val :
                 \A r \in ee_vocab.val[k] : <<k[1], r, k[2]>> \in all

\* C7 failing run: eval_model with a valid split and no test split completes
\* with maps that lack a completion of the valid split
C7_Witness ==
    /\ pc = "done" /\ args.eval_model
    /\ valid_set.some /\ ~test_set.some
    /\ \E i \in DOMAIN valid_set.val :
          <<valid_set.val[i][1], valid_set.val[i][2]>> \notin DOMAIN er_vocab.val

\* the candidates a sorted index order puts before x
RankedAbove(sort_idxs, x) ==
    {sort_idxs[k] : k \in {j \in DOMAIN sort_idxs : j < Where(sort_idxs, x) + 1}}

\* C8: in evaluate_lp, for every test triple (s,p,o) and every score
\* assignment, the tail ranking puts no entity of er_vocab[(s,p)] other than o
\* above o and the head ranking no entity of po_vocab[(p,o)] other than s
\* above s; the target is ranked with its own score; and each reported rank is
\* 1 plus the number of candidates outside the filter set ranked above the
\* target.
C8_FilteredRanking ==
    [][ /\ (lp.pc = "loop" /\ lp'.pc = "tail_ranked") =>
              LET t == lp.triple_idx[lp.i]
                  filt == er_vocab.val[<<t[1], t[2]>>]
                  above == RankedAbove(lp'.sort_idxs, t[3])
              IN  /\ above \cap (filt \ {t[3]}) = {}
                  /\ lp'.filtered[t[3]] = lp'.predictions[t[3]]
                  /\ \A e \in AllEntities \ filt : lp'.filtered[e] = lp'.predictions[e]
                  /\ \A e \in above : lp'.predictions[e] >= lp'.predictions[t[3]]
                  /\ \A e \in AllEntities \ filt :
                        lp'.predictions[e] > lp'.predictions[t[3]] => e \in above
        /\ (lp.pc = "tail_ranked" /\ lp'.pc = "loop") =>
              LET t == lp.triple_idx[lp.i]
                  filt == re_vocab.val[<<t[2], t[3]>>]
                  above == RankedAbove(lp'.sort_idxs, t[1])
                  filt_tail == er_vocab.val[<<t[1], t[2]>>]
                  above_tail == RankedAbove(lp.sort_idxs, t[3])
              IN  /\ above \cap (filt \ {t[1]}) = {}
                  /\ lp'.filtered[t[1]] = lp'.predictions[t[1]]
                  /\ \A e \in AllEntities \ filt : lp'.filtered[e] = lp'.predictions[e]
                  /\ \A e \in above : lp'.predictions[e] >= lp'.predictions[t[1]]
                  /\ \A e \in AllEntities \ filt :
                        lp'.predictions[e] > lp'.predictions[t[1]] => e \in above
                  /\ lp'.filt_head_entity_rank = 1 + Cardinality(above \ filt)
                  /\ lp'.filt_tail_entity_rank = 1 + Cardinality(above_tail \ filt_tail)
                  /\ Last(lp'.reciprocal_ranks)
                        = <<1 + Cardinality(above \ filt), 1 + Cardinality(above_tail \ filt_tail)>>
      ]_vars

\* C8 witness: a triple was ranked whose head filter set holds another entity
\* that the model scored above the target; it is not ranked above the target,
\* an unfiltered candidate is, and the reported head rank is 2
C8_Witness ==
    /\ lp.pc = "loop" /\ lp.i = 2
    /\ LET t == lp.triple_idx[1]
           filt == re_vocab.val[<<t[2], t[3]>>]
       IN  /\ \E e \in filt \ {t[1]} : lp.predictions[e] > lp.predictions[t[1]]
           /\ \E e \in AllEntities \ filt : e \in RankedAbove(lp.sort_idxs, t[1])
           /\ lp.filt_head_entity_rank = 2
           /\ lp.filt_tail_entity_rank = 2

\* the three vocabulary and train files deserialize reads unconditionally exist
StorageReadable ==
    /\ disk.entity_to_idx # None
    /\ disk.relation_to_idx # None
    /\ disk.idx_train_df # None

\* C9: deserializing from a storage path that lacks idx_valid_df and/or
\* idx_test_df does not raise; the missing split is None, the train set and the
\* present split hold the stored rows, and num_entities / num_relations are the
\* sizes of the stored vocabularies, with or without the optional splits.
C9_MissingOptionalSplit ==
    (mode = "deserialize" /\ StorageReadable) =>
        /\ pc \in {"deserialized", "done"}
        /\ error = NoError
        /\ train_set = disk.idx_train_df
        /\ valid_set = disk.idx_valid_df
        /\ test_set = disk.idx_test_df
        /\ num_entities = Some(Len(disk.entity_to_idx.val))
        /\ num_relations = Some(Len(disk.relation_to_idx.val))
        /\ num_entities.val = Cardinality(DOMAIN entity_to_idx.val)
        /\ num_relations.val = Cardinality(DOMAIN relation_to_idx.val)

\* C9 witness: a KG deserialized from a path without idx_valid_df that holds
\* idx_test_df
C9_Witness ==
    /\ mode = "deserialize" /\ pc = "deserialized"
    /\ disk.idx_valid_df = None /\ disk.idx_test_df # None
    /\ valid_set = None /\ test_set.some /\ train_set.some
    /\ Len(train_set.val) > 0

\* two optional splits hold the same rows the same number of times
SameRows(x, y) ==
    /\ x.some = y.some
    /\ x.some => \A t \in Range(x.val) \cup Range(y.val) :
                     Count(x.val, t) = Count(y.val, t)

\* C10: a KG deserialized from the path a completed construction from raw data
\* wrote to is constructed without error and has the same vocabularies, the
\* same num_entities and num_relations and the same rows in train, valid and
\* test, absent splits staying absent.
C10_RoundTrip ==
    (mode = "deserialize" /\ built.some) =>
        /\ pc \in {"deserialized", "done"}
        /\ entity_to_idx = built.val.entity_to_idx
        /\ relation_to_idx = built.val.relation_to_idx
        /\ num_entities = built.val.num_entities
        /\ num_relations = built.val.num_relations
        /\ SameRows(train_set, built.val.train_set)
        /\ SameRows(valid_set, built.val.valid_set)
        /\ SameRows(test_set, built.val.test_set)

\* C10 failing run: a construction with caller-supplied vocabularies and a
\* storage path completed, and the deserialization from that path raised
C10_Witness ==
    /\ mode = "deserialize" /\ built.some /\ ~BuiltByPipeline
    /\ pc = "aborted" /\ error.exc = "FileNotFoundError"

\* C11: whenever a construction from raw data with a storage path completes,
\* the indexed train set is on storage, whether the pipeline built the
\* vocabularies or the caller supplied them.
C11_TrainWritten ==
    (mode = "fresh" /\ pc = "done" /\ args.path_for_serialization # None)
        => disk.idx_train_df # None

\* C11 failing run: a construction with supplied vocabularies and a storage
\* path completed and no indexed train set is on storage
C11_Witness ==
    /\ mode = "fresh" /\ pc = "done" /\ args.path_for_serialization # None
    /\ ~BuiltByPipeline
    /\ Len(train_set.val) > 0
    /\ disk.idx_train_df = None

\* C12: vocabulary construction (with a valid threshold or none) completes and
\* the pipeline proceeds to indexing; with path_for_serialization set both
\* mappings are on storage as built, with path_for_serialization None nothing
\* is written.
C12_VocabularyPersistedIffPath ==
    [][ (pc = "augmented" /\ BuiltByPipeline
            /\ (args.min_freq_for_vocab.some => args.min_freq_for_vocab.val > 0))
        => /\ pc' = "vocabulary"
           /\ IF args.path_for_serialization # None
              THEN /\ disk'.entity_to_idx = entity_to_idx'
                   /\ disk'.relation_to_idx = relation_to_idx'
              ELSE disk' = disk
      ]_vars

\* C12 failing run: vocabulary construction without a storage path ended with
\* a TypeError
C12_Witness ==
    /\ pc = "aborted" /\ error = [exc |-> "TypeError", at |-> "augmented"]
    /\ args.path_for_serialization = None
    /\ BuiltByPipeline
    /\ entity_to_idx.some /\ relation_to_idx = None

\* aug is rows followed by (o, p_inverse, s) for every row (s, p, o), in order
IsReciprocalAugmentation(aug, rows) ==
    /\ Len(aug) = 2 * Len(rows)
    /\ \A i \in DOMAIN rows :
          /\ aug[i] = rows[i]
          /\ aug[Len(rows) + i] = <<rows[i][3], rows[i][2] \o "_inverse", rows[i][1]>>
OptionalIsReciprocalAugmentation(aug, split) ==
    /\ aug.some = split.some
    /\ split.some => IsReciprocalAugmentation(aug.val, split.val)

\* C13: apply_reciprical_or_noise adds reciprocal triples only when both
\* add_reciprical and eval_model are on: otherwise valid and test are left as
\* loaded, and so is train when no noise rate is given; with both on, train and
\* every present valid/test split get the reciprocal of each of their rows.
C13_ReciprocalOnlyWithEval ==
    [][ pc = "loaded" =>
          IF args.add_reciprical /\ args.eval_model
          THEN /\ Len(train_set'.val) >= 2 * Len(train_set.val)
               /\ IsReciprocalAugmentation(
                      SubSeq(train_set'.val, 1, 2 * Len(train_set.val)), train_set.val)
               /\ OptionalIsReciprocalAugmentation(valid_set', valid_set)
               /\ OptionalIsReciprocalAugmentation(test_set', test_set)
          ELSE /\ valid_set' = valid_set
               /\ test_set' = test_set
               /\ args.add_noise_rate = None => train_set' = train_set
      ]_vars

\* C13 witness: add_reciprical without eval_model left non-empty train, valid
\* and test splits as they were loaded
C13_Witness ==
    /\ pc = "augmented"
    /\ args.add_reciprical /\ ~args.eval_model /\ args.add_noise_rate = None
    /\ valid_set.some /\ test_set.some /\ Len(train_set.val) > 0
    /\ train_set.val = args.train /\ valid_set = args.valid /\ test_set = args.test

\* the inverse relation strings reciprocal augmentation introduces
InverseRelations(rows) == {rows[i][2] \o "_inverse" : i \in DOMAIN rows}

\* C14: with reciprocal augmentation and noise both enabled, the reciprocal
\* triples of train, valid and test are added before the noise is drawn: the
\* train set is its reciprocal augmentation followed by the noise triples,
\* whose number is taken from the augmented train set and which get no
\* reciprocal counterpart appended; valid and test hold their reciprocal
\* augmentation and nothing else.
C14_ReciprocalBeforeNoise ==
    [][ (pc = "loaded" /\ args.add_reciprical /\ args.eval_model
            /\ args.add_noise_rate # None)
        => LET n == Len(train_set.val)
               k == NumNoisyTriples(create_recipriocal_triples(train_set.val),
                                    args.add_noise_rate.val)
           IN  /\ Len(train_set'.val) = 2 * n + k
               /\ IsReciprocalAugmentation(SubSeq(train_set'.val, 1, 2 * n), train_set.val)
               /\ \A i \in (2 * n + 1)..(2 * n + k) :
                     train_set'.val[i] \in NoiseCandidates(SubSeq(train_set'.val, 1, 2 * n))
               /\ OptionalIsReciprocalAugmentation(valid_set', valid_set)
               /\ OptionalIsReciprocalAugmentation(test_set', test_set)
      ]_vars

\* C14 witness: both enabled; a noise triple with an inverse relation follows
\* the reciprocal augmentation of the train set, and the valid split holds its
\* two rows only
C14_Witness ==
    /\ pc = "augmented"
    /\ args.add_reciprical /\ args.eval_model /\ args.add_noise_rate # None
    /\ Len(train_set.val) > 2 * Len(args.train)
    /\ train_set.val[Len(train_set.val)][2] \in InverseRelations(args.train)
    /\ train_set.val[Len(train_set.val)]
          \notin Range(SubSeq(train_set.val, 1, 2 * Len(args.train)))
    /\ valid_set.some /\ Len(valid_set.val) = 2

\* C15: a construction from raw data with min_freq_for_vocab <= 0 fails before
\* any split is loaded, augmented or indexed, and never completes.
C15_NonPositiveThresholdFailsFast ==
    (mode = "fresh" /\ args.min_freq_for_vocab.some /\ args.min_freq_for_vocab.val <= 0)
        => /\ pc \in {"init", "aborted"}
           /\ pc = "aborted" => error.at = "init"

\* C15 failing run: a construction with threshold 0 and supplied vocabularies
\* completed
C15_Witness ==
    /\ mode = "fresh" /\ pc = "done"
    /\ args.min_freq_for_vocab.some /\ args.min_freq_for_vocab.val <= 0
    /\ Len(train_set.val) > 0

\* C16: an indexed split is written only after it passed the sanity check: a
\* construction aborted by the bounds check of a split leaves no indexed file
\* of that split on storage.
C16_WriteAfterSanityCheck ==
    (mode = "fresh" /\ pc = "aborted" /\ error.exc = "AssertionError") =>
        /\ error.at = "train_indexed" => disk.idx_train_df = None
        /\ error.at = "train_checked" => disk.idx_valid_df = None
        /\ error.at = "valid_done" => disk.idx_test_df = None

\* C16 failing run: the bounds check of the valid split aborted the
\* construction and the indexed valid split, with its out-of-bound id, is on
\* storage
C16_Witness ==
    /\ mode = "fresh" /\ pc = "aborted"
    /\ error = [exc |-> "AssertionError", at |-> "train_checked"]
    /\ disk.idx_valid_df # None
    /\ ~InBounds(disk.idx_valid_df.val, num_entities.val, num_relations.val)

\* C17: in the entity-prediction branch of evaluate_lp_k_vs_all, for every
\* evaluated triple (s,p,o) and every score assignment, zero and negative
\* scores included, no entity of er_vocab[(s,p)] other than o is ranked above
\* o, and o is ranked with its own score.
C17_KvsAllFilteredRanking ==
    [][ (lp.pc = "loop" /\ lp'.pc = "loop" /\ lp'.i = lp.i + 1
            /\ lp.form_of_labelling = "EntityPrediction") =>
          LET t == lp.triple_idx[lp.i]
              known == er_vocab.val[<<t[1], t[2]>>]
          IN  /\ RankedAbove(lp'.sort_idxs, t[3]) \cap (known \ {t[3]}) = {}
              /\ lp'.filtered[t[3]] = lp'.predictions[t[3]]
      ]_vars

\* C17 failing run: the target has a negative score and another known object
\* of (s,p), overwritten with 0.0, is ranked above it
C17_Witness ==
    /\ lp.pc = "loop" /\ lp.i = 2 /\ lp.form_of_labelling = "EntityPrediction"
    /\ LET t == lp.triple_idx[1]
       IN  /\ lp.predictions[t[3]] < 0
           /\ \E e \in er_vocab.val[<<t[1], t[2]>>] \ {t[3]} :
                 /\ e \in RankedAbove(lp.sort_idxs, t[3])
                 /\ lp.filtered[e] = 0

\* C18: in the relation-prediction branch of evaluate_lp_k_vs_all the filter
\* set of an evaluated triple (s,p,o) is looked up with (s,o): the relations
\* filtered out before p is ranked are exactly the relations seen with the
\* pair (s,o), except p.
C18_RelationFilterKey ==
    [][ (lp.pc = "loop" /\ lp'.pc = "loop" /\ lp'.i = lp.i + 1
            /\ lp.form_of_labelling = "RelationPrediction") =>
          LET t == lp.triple_idx[lp.i]
          IN  lp'.filt \ {t[2]} = ee_vocab.val[<<t[1], t[3]>>] \ {t[2]}
      ]_vars

\* C18 failing run: a relation that was never seen with (s,o) was filtered
\* out, its score overwritten, before p was ranked
C18_Witness ==
    /\ lp.pc = "loop" /\ lp.i = 2 /\ lp.form_of_labelling = "RelationPrediction"
    /\ LET t == lp.triple_idx[1]
       IN  \E r \in lp.filt \ {t[2]} :
             /\ r \notin ee_vocab.val[<<t[1], t[3]>>]
             /\ lp.predictions[r] # 0 /\ lp.filtered[r] = 0

\* C19: the bounds check of every split is applied to the ids as the indexer
\* produced them, before they are narrowed: the stage that ends with the check
\* of a split passes only if the ids the indexer produced are within bounds,
\* for train as for valid and test.
C19_CheckBeforeNarrowing ==
    [][ /\ (pc = "train_indexed" /\ pc' = "train_checked")
              => InBounds(train_set.val, num_entities.val, num_relations.val)
        /\ (pc = "train_checked" /\ pc' = "valid_done" /\ valid_set.some)
              => InBounds(Indexed(valid_set.val, entity_to_idx.val, relation_to_idx.val),
                          num_entities.val, num_relations.val)
        /\ (pc = "valid_done" /\ pc' = "test_done" /\ test_set.some)
              => InBounds(Indexed(test_set.val, entity_to_idx.val, relation_to_idx.val),
                          num_entities.val, num_relations.val)
      ]_vars

\* C19 failing run: the indexer produced an id outside the bounds for the
\* train set, narrowing wrapped it into range, and the check passed
C19_Witness ==
    /\ mode = "fresh" /\ pc = "train_checked" /\ ~BuiltByPipeline
    /\ ~InBounds(index_triples(args.train, entity_to_idx.val, relation_to_idx.val),
                 num_entities.val, num_relations.val)
    /\ InBounds(train_set.val, num_entities.val, num_relations.val)

\* C20: with a frequency threshold t, the train set is pruned before it is
\* indexed on every path of a construction from raw data, supplied
\* vocabularies included: no indexed train triple has an entity or a relation
\* whose count in the augmented train set was <= t.
C20_PruningBeforeIndexing ==
    [][ (pc = "augmented" /\ args.min_freq_for_vocab.some
            /\ pc' \in {"vocabulary", "train_indexed"})
        => /\ Len(train_set'.val)
                 = Cardinality({i \in DOMAIN train_set.val :
                      /\ EntityOccurrences(train_set.val, train_set.val[i][1])
                            > args.min_freq_for_vocab.val
                      /\ EntityOccurrences(train_set.val, train_set.val[i][3])
                            > args.min_freq_for_vocab.val
                      /\ RelationOccurrences(train_set.val, train_set.val[i][2])
                            > args.min_freq_for_vocab.val})
      ]_vars

\* C20 failing run: with supplied vocabularies and threshold 1 the only train
\* triple, whose strings occur once, was indexed
C20_Witness ==
    /\ mode = "fresh" /\ pc = "train_indexed" /\ ~BuiltByPipeline
    /\ args.min_freq_for_vocab = Some(1)
    /\ Len(args.train) = 1 /\ Len(train_set.val) = 1

\* the number of head and tail ranks of the evaluated triples that are <= k
RanksWithin(reciprocal_ranks, k) ==
    SumSeq([j \in DOMAIN reciprocal_ranks |->
               (IF reciprocal_ranks[j][1] <= k THEN 1 ELSE 0)
                   + (IF reciprocal_ranks[j][2] <= k THEN 1 ELSE 0)])

\* C21: evaluate_lp returns H@1, H@3, H@10 and MRR for every non-empty list of
\* evaluated triples and every assignment of scores, also when no head or tail
\* target is ranked first (the metric is then 0 and nothing is raised); the
\* Hits@k count is the number of head ranks <= k plus the number of tail ranks
\* <= k, over twice the number of triples, so H@1 <= H@3 <= H@10.
C21_MetricsReturned ==
    (lp.pc \in {"returned", "raised"} /\ Len(lp.triple_idx) > 0) =>
        /\ lp.pc = "returned" /\ lp.raised = ""
        /\ lp.results.some
        /\ lp.results.val.H1 = RanksWithin(lp.reciprocal_ranks, 1)
        /\ lp.results.val.H3 = RanksWithin(lp.reciprocal_ranks, 3)
        /\ lp.results.val.H10 = RanksWithin(lp.reciprocal_ranks, 10)
        /\ lp.results.val.MRR = ReciprocalRankSum(lp.reciprocal_ranks)
        /\ lp.results.val.over = Len(lp.triple_idx) * 2
        /\ lp.results.val.H1 <= lp.results.val.H3
        /\ lp.results.val.H3 <= lp.results.val.H10

\* C21 failing run: one triple was evaluated, its head and its tail target were
\* both ranked second (the head behind a candidate with a strictly higher
\* score), hits has no level 1 and the call raised KeyError
C21_Witness ==
    /\ lp.pc = "raised" /\ lp.raised = "KeyError"
    /\ Len(lp.triple_idx) = 1
    /\ \E e \in AllEntities : lp.filtered[e] > lp.filtered[lp.triple_idx[1][1]]
    /\ lp.reciprocal_ranks = << <<2, 2>> >>
    /\ 1 \notin DOMAIN lp.hits
    /\ {3, 10} \subseteq DOMAIN lp.hits
    /\ ~lp.results.some

=============================================================================
